---- MODULE Spec2Model ----
(***************************************************************************)
(* Model of quic/state/AckHandlers.cpp: processAckFrame, the reconciliation *)
(* of an incoming ack frame with the connection's outstanding packets, and  *)
(* commonAckVisitorForAckFrame, the maintenance of the received-packet      *)
(* interval set.                                                            *)
(*                                                                          *)
(* Iterators are positions.  The outstanding packets are a sequence in send *)
(* order, packets[1] the oldest.  A reverse iterator is the position of the *)
(* element it points at: rbegin() is Len(packets), rend() is 0, ++ is -1.   *)
(* Time points are integers (nanoseconds of the steady clock); durations    *)
(* handed to the RTT code are microseconds.                                 *)
(***************************************************************************)
EXTENDS Integers, Sequences, FiniteSets

\* ------------------------------------------------------------------ bounds
MaxPacketNum == 2
MaxOutstanding == 3
MaxSent == 4
MaxCloneSent == 3
MaxMixedSent == 5
MaxSingleSent == 3
MaxTimedSent == 2
MaxAckBlocks == 2
MaxEvents == 1
MaxFrames == 1
MaxTicks == 2
TickNanos == 600
MaxReceivedNum == 5
MaxSkipSent == 4
MaxSizedSent == 2
MaxEncodedSize == 2
MaxWriteBlocks == 2

\* --------------------------------------------------------------- constants
NanosPerMicro == 1000

\* The purge threshold of AckState, scaled to the packet numbers explored.
kAckPurgingThresh == 2

PacketNumberSpace == {"Initial", "Handshake", "AppData"}

\* folly::Optional without a value
None == -1

PacketNums == 0..MaxPacketNum
Events == 1..MaxEvents
TimePoints == {k * TickNanos : k \in 0..MaxTicks}

\* ----------------------------------------------------------------- helpers
Min(a, b) == IF a < b THEN a ELSE b

Range(s) == {s[i] : i \in 1..Len(s)}

RECURSIVE SumSeq(_)
SumSeq(s) == IF s = <<>> THEN 0 ELSE Head(s) + SumSeq(Tail(s))

\* std::chrono::duration_cast<std::chrono::microseconds> of a nanosecond
\* count: integer division that truncates toward zero.
ToMicros(ns) == IF ns >= 0 THEN ns \div NanosPerMicro ELSE -((-ns) \div NanosPerMicro)

\* An erase that leaves the first element of the range in place.
EraseRangeShort(s, lo, hi) == SubSeq(s, 1, lo) \o SubSeq(s, hi + 1, Len(s))

\* deque::erase(first, last) on positions lo..hi (inclusive); positions below
\* lo keep their index.
EraseRange(s, lo, hi) == SubSeq(s, 1, lo - 1) \o SubSeq(s, hi + 1, Len(s))

\* A default-constructed CongestionController::AckEvent with ackTime set.
NewAckEvent(ackReceiveTime) ==
  [ackTime |-> ackReceiveTime,
   ackedBytes |-> 0,
   ackedPackets |-> <<>>,
   largestAckedPacket |-> None,
   largestAckedPacketSentTime |-> 0,
   largestAckedPacketAppLimited |-> FALSE,
   mrttSample |-> None]

\* One entry of the record of calls made, and steps taken, by processAckFrame.
\* An "ackBlock" entry is one iteration of the block loop (block, cursor,
\* position found); an "advance" entry one iteration of the inner walk (cursor
\* before and after).
Event(ev, pn, val, aux) == [ev |-> ev, pn |-> pn, val |-> val, aux |-> aux]

\* ------------------------------------------------------------ processAckFrame
\* getLastOutstandingPacket(conn, pnSpace): where the walk over the outstanding
\* packets starts, the tail of the list.
getLastOutstandingPacket(pkts, pnSpace) == Len(pkts)

\* An off-by-one in the comparison of line 105.
BelowBlockOrAtStart(p, block) == p.pn <= block.startPacket

\* std::lower_bound(first, rend(), val, comp) with comp(p, val) == p.pn > val,
\* as the library computes it: a binary search over the len elements from
\* position first toward the head.
\* Lines 65-67: the comparison handed to std::lower_bound.
PacketGreater(p, val) == p.pn > val

RECURSIVE LowerBound(_, _, _, _)
LowerBound(pkts, first, len, val) ==
  IF len <= 0 THEN first
  ELSE LET half == len \div 2
           middle == first - half
       IN IF PacketGreater(pkts[middle], val)
            THEN LowerBound(pkts, middle - 1, len - half - 1, val)
            ELSE LowerBound(pkts, first, half, val)

\* Every acked packet processed, whatever became of its associated event.
NeedsProcessAlways(p, packetEvents) == TRUE

\* Lines 111-112.
NeedsProcess(p, packetEvents) ==
  p.associatedEvent = None \/ p.associatedEvent \in packetEvents

\* The sample taken from the later of the ack's receive time and the clock.
RttSampleFromLater(p, ackReceiveTime, clockNow) ==
  ToMicros((IF ackReceiveTime > clockNow THEN ackReceiveTime ELSE clockNow) - p.time)

\* Lines 126-129: the RTT sample of one acked packet, in microseconds.
RttSample(p, ackReceiveTime, clockNow) ==
  LET ackReceiveTimeOrNow == IF ackReceiveTime > p.time THEN ackReceiveTime ELSE clockNow
  IN ToMicros(ackReceiveTimeOrNow - p.time)

\* The RTT estimator fed from every packet up to the largest acked.
UpToLargestAcked(p, frame) == p.pn <= frame.largestAcked

\* Line 130: the packet is the one the frame names as its largest acked.
IsLargestAcked(p, frame) == p.pn = frame.largestAcked

\* Lines 137-139: the ack visitor runs once per frame of the packet.
VisitFrames(p) == [i \in 1..p.frames |-> Event("ackVisitor", p.pn, i, 0)]

\* The largest acked overwritten by every acked packet.
UpdateLargestAckedAlways(ack, p) ==
  [ack EXCEPT !.largestAckedPacket = p.pn,
              !.largestAckedPacketSentTime = p.time,
              !.largestAckedPacketAppLimited = p.isAppLimited]

\* Lines 145-150.
UpdateLargestAcked(ack, p) ==
  IF ack.largestAckedPacket = None \/ ack.largestAckedPacket < p.pn
    THEN [ack EXCEPT !.largestAckedPacket = p.pn,
                     !.largestAckedPacketSentTime = p.time,
                     !.largestAckedPacketAppLimited = p.isAppLimited]
    ELSE ack

\* The minimum replaced by the sample of the packet visited last.
UpdateMrttLast(ack, p, ackReceiveTime, rttSample) ==
  IF ackReceiveTime > p.time THEN [ack EXCEPT !.mrttSample = rttSample] ELSE ack

\* Lines 151-154.
UpdateMrtt(ack, p, ackReceiveTime, rttSample) ==
  IF ackReceiveTime > p.time
    THEN [ack EXCEPT !.mrttSample =
            Min(IF ack.mrttSample = None THEN rttSample ELSE ack.mrttSample, rttSample)]
    ELSE ack

\* Lines 162-169: the record appended to ack.ackedPackets.
AckPacketRecord(p) ==
  [sentTime |-> p.time,
   encodedSize |-> p.encodedSize,
   totalBytesSentThen |-> p.totalBytesSent,
   isAppLimited |-> p.isAppLimited]

\* The record put in front of the list instead of at its end.
PushAckedPacketFront(ack, p) ==
  [ack EXCEPT !.ackedPackets = <<AckPacketRecord(p)>> \o @]

\* Lines 162-169: ack.ackedPackets.push_back of the packet's record.
PushAckedPacket(ack, p) ==
  [ack EXCEPT !.ackedPackets = Append(@, AckPacketRecord(p))]

\* Lines 108-170: the body of the inner loop for one acked packet p, the
\* packet at st.rPacketIt.
AckOnePacket(st, p, pnSpace, frame, ackReceiveTime, clockNow) ==
  LET needsProcess == NeedsProcess(p, st.packetEvents)
      countHs == p.isHandshake /\ needsProcess
      rttSample == RttSample(p, ackReceiveTime, clockNow)
      ack1 == [st.ack EXCEPT !.ackedBytes = @ + p.encodedSize]
      ack2 == UpdateLargestAcked(ack1, p)
      ack3 == UpdateMrtt(ack2, p, ackReceiveTime, rttSample)
      ack4 == PushAckedPacket(ack3, p)
      bytesAcked == st.lossState.totalBytesAcked + p.encodedSize
  IN [st EXCEPT
        !.aborted = @ \/ (countHs /\ pnSpace \notin {"Initial", "Handshake"}),
        !.initialPacketAcked = IF countHs /\ pnSpace = "Initial" THEN @ + 1 ELSE @,
        !.handshakePacketAcked = IF countHs /\ pnSpace # "Initial" THEN @ + 1 ELSE @,
        !.clonedPacketsAcked = IF p.associatedEvent # None THEN @ + 1 ELSE @,
        !.trace = @
           \o (IF IsLargestAcked(p, frame)
                 THEN <<Event("updateRtt", p.pn, rttSample, frame.ackDelay)>> ELSE <<>>)
           \o (IF needsProcess THEN VisitFrames(p) ELSE <<>>)
           \o <<Event("ackedPacket", p.pn, p.encodedSize, rttSample),
                Event("advance", p.pn, st.rPacketIt, st.rPacketIt - 1)>>,
        !.packetEvents = IF needsProcess /\ p.associatedEvent # None
                           THEN @ \ {p.associatedEvent} ELSE @,
        !.ack = ack4,
        !.lossState = [@ EXCEPT !.totalBytesAcked = bytesAcked,
                                !.totalBytesSentAtLastAck = st.lossState.totalBytesSent,
                                !.totalBytesAckedAtLastAck = bytesAcked,
                                !.lastAckedTime = ackReceiveTime],
        !.lastAckedPacketSentTime = IF @ = None THEN p.time ELSE @,
        !.rPacketIt = @ - 1]

\* conn.outstandings.packets.erase(rPacketIt.base(), eraseEnd.base()): removes
\* the elements the reverse walk passed, positions rPacketIt+1 .. eraseEnd.
EraseAcked(st) ==
  [st EXCEPT !.packets = EraseRange(@, st.rPacketIt + 1, st.eraseEnd),
             !.trace = Append(@, Event("erase", st.rPacketIt + 1, st.eraseEnd, 0))]

\* Line 105: the packet lies below the ack block and ends the walk.
BelowBlock(p, block) == p.pn < block.startPacket

\* Lines 84-171: the inner loop, from st.rPacketIt toward the head.
RECURSIVE WalkPackets(_, _, _, _, _, _)
WalkPackets(st, block, pnSpace, frame, ackReceiveTime, clockNow) ==
  IF st.rPacketIt = 0 \/ st.aborted THEN st
  ELSE LET p == st.packets[st.rPacketIt] IN
    IF pnSpace # p.space
      THEN LET skipped ==
                 IF st.rPacketIt # st.eraseEnd
                   THEN LET e == EraseAcked(st)
                        IN [e EXCEPT !.rPacketIt = st.rPacketIt - 1,
                                     !.eraseEnd = st.rPacketIt - 1]
                   ELSE [st EXCEPT !.rPacketIt = @ - 1, !.eraseEnd = st.rPacketIt - 1]
               moved == [skipped EXCEPT !.trace =
                           Append(@, Event("advance", p.pn, st.rPacketIt, skipped.rPacketIt))]
           IN WalkPackets(moved, block, pnSpace, frame, ackReceiveTime, clockNow)
    ELSE IF BelowBlock(p, block) THEN st
    ELSE WalkPackets(AckOnePacket(st, p, pnSpace, frame, ackReceiveTime, clockNow),
                     block, pnSpace, frame, ackReceiveTime, clockNow)

\* Lines 57-184: the loop over the ack blocks.
RECURSIVE AckBlockLoop(_, _, _, _, _)
AckBlockLoop(st, pnSpace, frame, ackReceiveTime, clockNow) ==
  IF st.ackBlockIt > Len(frame.ackBlocks) \/ st.currentPacketIt = 0 \/ st.aborted THEN st
  ELSE LET block == frame.ackBlocks[st.ackBlockIt]
           found == LowerBound(st.packets, st.currentPacketIt, st.currentPacketIt,
                               block.endPacket)
           entered == Append(st.trace,
                             Event("ackBlock", st.ackBlockIt, st.currentPacketIt, found))
       IN IF found = 0
            THEN [st EXCEPT !.ackBlockIt = @ + 1, !.trace = entered]
            ELSE LET w == WalkPackets([st EXCEPT !.rPacketIt = found, !.eraseEnd = found,
                                                 !.trace = entered],
                                      block, pnSpace, frame, ackReceiveTime, clockNow)
                     e == IF w.rPacketIt # w.eraseEnd THEN EraseAcked(w) ELSE w
                 IN AckBlockLoop([e EXCEPT !.currentPacketIt = w.rPacketIt,
                                           !.ackBlockIt = @ + 1],
                                 pnSpace, frame, ackReceiveTime, clockNow)

\* Lines 43-56: the locals of processAckFrame before the loops.
StartAck(conn, pnSpace, ackReceiveTime) ==
  [packets |-> conn.packets,
   packetEvents |-> conn.packetEvents,
   lossState |-> conn.lossState,
   ack |-> NewAckEvent(ackReceiveTime),
   currentPacketIt |-> getLastOutstandingPacket(conn.packets, pnSpace),
   initialPacketAcked |-> 0,
   handshakePacketAcked |-> 0,
   clonedPacketsAcked |-> 0,
   lastAckedPacketSentTime |-> None,
   ackBlockIt |-> 1,
   rPacketIt |-> 0,
   eraseEnd |-> 0,
   trace |-> <<>>,
   aborted |-> FALSE]

\* Lines 188-199: the CHECK_GE on the counters; TRUE when one of them fails.
CounterCheckFails(conn, st) ==
  \/ conn.initialPacketsCount < st.initialPacketAcked
  \/ conn.handshakePacketsCount < st.handshakePacketAcked
  \/ conn.clonedPacketsCount < st.clonedPacketsAcked
  \/ Len(st.packets) < (conn.handshakePacketsCount - st.handshakePacketAcked)
                       + (conn.initialPacketsCount - st.initialPacketAcked)
  \/ Len(st.packets) < conn.clonedPacketsCount - st.clonedPacketsAcked

\* The congestion controller told of acks only, not of a loss alone.
HandOffAckedOnly(ack, hasCC, lossEvent, persistent) ==
  <<Event("handleAckForLoss", 0, 0, 0)>>
  \o (IF hasCC /\ ack.largestAckedPacket # None
        THEN <<Event("onPacketAckOrLoss", 0, IF lossEvent.present THEN 1 ELSE 0, 0)>>
        ELSE <<>>)

\* The loss detector run only when a packet was acked.
HandOffLossWhenAcked(ack, hasCC, lossEvent, persistent) ==
  IF ack.largestAckedPacket = None THEN <<>>
  ELSE <<Event("handleAckForLoss", 0, 0, 0)>>
       \o (IF hasCC
             THEN <<Event("onPacketAckOrLoss", 0, IF lossEvent.present THEN 1 ELSE 0, 0)>>
             ELSE <<>>)

\* The congestion controller told of the loss before the persistent-congestion
\* predicate is asked.
HandOffFlagLate(ack, hasCC, lossEvent, persistent) ==
  <<Event("handleAckForLoss", 0, 0, 0)>>
  \o (IF hasCC /\ (ack.largestAckedPacket # None \/ lossEvent.present)
        THEN <<Event("onPacketAckOrLoss", 0, IF lossEvent.present THEN 1 ELSE 0, 0)>>
             \o (IF lossEvent.present
                   THEN <<Event("isPersistentCongestion", 0,
                                lossEvent.smallestLostSentTime,
                                lossEvent.largestLostSentTime)>>
                   ELSE <<>>)
        ELSE <<>>)

\* Lines 200-217: the hand-off to the loss detector and to the congestion
\* controller.  lossEvent is what handleAckForLoss returns (present or not),
\* persistent what isPersistentCongestion answers.
HandOff(ack, hasCC, lossEvent, persistent) ==
  <<Event("handleAckForLoss", 0, 0, 0)>>
  \o (IF hasCC /\ (ack.largestAckedPacket # None \/ lossEvent.present)
        THEN (IF lossEvent.present
                THEN <<Event("isPersistentCongestion", 0,
                             lossEvent.smallestLostSentTime, lossEvent.largestLostSentTime)>>
                ELSE <<>>)
             \o <<Event("onPacketAckOrLoss", 0,
                        IF lossEvent.present THEN 1 ELSE 0,
                        IF lossEvent.present /\ persistent THEN 1 ELSE 0)>>
        ELSE <<>>)

\* Lines 35-218.  conn is the connection state the function works on; the
\* result is that state after the call, with the ack event built, the record
\* of the calls made, and whether a CHECK ended the process.
processAckFrame(conn, pnSpace, frame, ackReceiveTime, clockNow, lossEvent, persistent) ==
  LET st == AckBlockLoop(StartAck(conn, pnSpace, ackReceiveTime),
                         pnSpace, frame, ackReceiveTime, clockNow)
      lossState1 == IF st.lastAckedPacketSentTime # None
                      THEN [st.lossState EXCEPT
                              !.lastAckedPacketSentTime = st.lastAckedPacketSentTime]
                      ELSE st.lossState
      failed == st.aborted \/ CounterCheckFails(conn, st)
  IN [packets |-> st.packets,
      packetEvents |-> st.packetEvents,
      lossState |-> lossState1,
      initialPacketsCount |->
        IF failed THEN conn.initialPacketsCount
        ELSE conn.initialPacketsCount - st.initialPacketAcked,
      handshakePacketsCount |->
        IF failed THEN conn.handshakePacketsCount
        ELSE conn.handshakePacketsCount - st.handshakePacketAcked,
      clonedPacketsCount |->
        IF failed THEN conn.clonedPacketsCount
        ELSE conn.clonedPacketsCount - st.clonedPacketsAcked,
      ack |-> st.ack,
      trace |-> IF failed THEN st.trace
                ELSE st.trace \o <<Event("counters", 0, 0, 0)>>
                     \o HandOff(st.ack, conn.congestionController, lossEvent, persistent),
      aborted |-> failed]

\* ------------------------------------------------ commonAckVisitorForAckFrame
\* AckState::acks is the set of packet numbers its intervals cover.
\* IntervalSet::withdraw(interval): the numbers of the closed interval leave
\* the set.
Withdraw(ackSet, interval) == ackSet \ (interval.start .. interval.end)

\* Lines 229-233: the blocks withdrawn from crbegin() to crend(); iter is the
\* position of the block the reverse iterator points at.
RECURSIVE WithdrawBlocks(_, _, _)
WithdrawBlocks(ackSet, ackBlocks, iter) ==
  IF iter = 0 THEN ackSet
  ELSE WithdrawBlocks(Withdraw(ackSet, ackBlocks[iter]), ackBlocks, iter - 1)

\* The purge applied from a largest acked equal to the threshold on.
ReachesPurgingThresh(largestAcked) == largestAcked >= kAckPurgingThresh

\* Line 236.
ExceedsPurgingThresh(largestAcked) == largestAcked > kAckPurgingThresh

\* A purge that stops two numbers short of the threshold distance.
PurgeRangeShort(largestAcked) ==
  [start |-> 0, end |-> largestAcked - kAckPurgingThresh - 2]

\* Line 237: the interval purged.
PurgeRange(largestAcked) == [start |-> 0, end |-> largestAcked - kAckPurgingThresh]

\* Lines 220-240.
commonAckVisitorForAckFrame(ackSet, frame) ==
  LET withdrawn == WithdrawBlocks(ackSet, frame.ackBlocks, Len(frame.ackBlocks))
  IN IF frame.ackBlocks # <<>>
       THEN LET largestAcked == frame.ackBlocks[1].end
            IN IF ExceedsPurgingThresh(largestAcked)
                 THEN Withdraw(withdrawn, PurgeRange(largestAcked))
                 ELSE withdrawn
       ELSE withdrawn

\* -------------------------------------------------------------------- state
VARIABLES
  packets,                \* conn.outstandings.packets, in send order
  packetEvents,           \* conn.outstandings.packetEvents
  initialPacketsCount,    \* conn.outstandings.initialPacketsCount
  handshakePacketsCount,  \* conn.outstandings.handshakePacketsCount
  clonedPacketsCount,     \* conn.outstandings.clonedPacketsCount
  lossState,              \* conn.lossState: byte counters and last-acked times
  congestionController,   \* whether conn.congestionController is set
  nextPacketNum,          \* next packet number to send, per space
  now,                    \* Clock::now()
  acks,                   \* AckState::acks, the packet numbers it covers
  aborted,                \* a CHECK failed: the process is gone
  call                    \* the last operation: arguments, state before, outcome

vars == <<packets, packetEvents, initialPacketsCount, handshakePacketsCount,
          clonedPacketsCount, lossState, congestionController, nextPacketNum,
          now, acks, aborted, call>>

\* The part of QuicConnectionStateBase processAckFrame reads and writes.
Conn ==
  [packets |-> packets,
   packetEvents |-> packetEvents,
   initialPacketsCount |-> initialPacketsCount,
   handshakePacketsCount |-> handshakePacketsCount,
   clonedPacketsCount |-> clonedPacketsCount,
   lossState |-> lossState,
   congestionController |-> congestionController,
   acks |-> acks]

NoCall == [op |-> "none"]

Init ==
  /\ packets = <<>>
  /\ packetEvents = {}
  /\ initialPacketsCount = 0
  /\ handshakePacketsCount = 0
  /\ clonedPacketsCount = 0
  /\ lossState = [totalBytesSent |-> 0,
                  totalBytesAcked |-> 0,
                  totalBytesSentAtLastAck |-> 0,
                  totalBytesAckedAtLastAck |-> 0,
                  lastAckedPacketSentTime |-> None,
                  lastAckedTime |-> None]
  /\ congestionController \in BOOLEAN
  /\ nextPacketNum = [s \in PacketNumberSpace |-> 0]
  /\ now = 0
  /\ acks = {}
  /\ aborted = FALSE
  /\ call = NoCall

\* ------------------------------------------------------------------- inputs
\* An ack block is a closed range of packet numbers.
AckBlocks ==
  {b \in [startPacket : PacketNums, endPacket : PacketNums] : b.startPacket <= b.endPacket}

\* The block lists a decoded ack frame can hold: descending, with at least one
\* unacknowledged packet number between two blocks.
RECURSIVE BlockLists(_)
BlockLists(n) ==
  IF n = 0 THEN {<<>>}
  ELSE {Append(x[1], x[2]) :
          x \in {y \in BlockLists(n - 1) \X AckBlocks :
                   \/ y[1] = <<>>
                   \/ y[2].endPacket + 1 < y[1][Len(y[1])].startPacket}}

ReadAckFrames(delays) ==
  {[largestAcked |-> IF l = <<>> THEN 0 ELSE l[1].endPacket,
    ackDelay |-> d,
    ackBlocks |-> l] :
      l \in UNION {BlockLists(n) : n \in 0..MaxAckBlocks}, d \in delays}

\* What the loss detector and the persistent-congestion predicate answer.
LossOutcomes ==
  {[present |-> FALSE, smallestLostSentTime |-> 0, largestLostSentTime |-> 0,
    persistentCongestion |-> FALSE]}
  \cup
  {[present |-> TRUE, smallestLostSentTime |-> 0, largestLostSentTime |-> TickNanos,
    persistentCongestion |-> b] : b \in BOOLEAN}

\* ------------------------------------------------------------------ actions
\* Packets written so far, over all spaces.
SentSoFar ==
  nextPacketNum["Initial"] + nextPacketNum["Handshake"] + nextPacketNum["AppData"]

\* A packet is written: it joins the outstanding packets and the counters
\* that match it.
SendPacket(space, size, hs, appLimited, event, nframes) ==
  /\ ~aborted
  /\ Len(packets) < MaxOutstanding
  /\ nextPacketNum[space] <= MaxPacketNum
  /\ hs => space \in {"Initial", "Handshake"}
  /\ event # None =>
       /\ \/ event \in packetEvents
          \/ \A i \in 1..Len(packets) : packets[i].associatedEvent # event
       /\ \A i \in 1..Len(packets) :
            packets[i].associatedEvent = event => packets[i].space = space
  /\ packets' = Append(packets,
       [pn |-> nextPacketNum[space], space |-> space, time |-> now, encodedSize |-> size,
        isHandshake |-> hs, isAppLimited |-> appLimited,
        associatedEvent |-> event, frames |-> nframes,
        totalBytesSent |-> lossState.totalBytesSent + size])
  /\ packetEvents' = IF event # None THEN packetEvents \cup {event} ELSE packetEvents
  /\ initialPacketsCount' = IF hs /\ space = "Initial" THEN initialPacketsCount + 1
                            ELSE initialPacketsCount
  /\ handshakePacketsCount' = IF hs /\ space = "Handshake" THEN handshakePacketsCount + 1
                              ELSE handshakePacketsCount
  /\ clonedPacketsCount' = IF event # None THEN clonedPacketsCount + 1
                           ELSE clonedPacketsCount
  /\ lossState' = [lossState EXCEPT !.totalBytesSent = @ + size]
  /\ nextPacketNum' = [nextPacketNum EXCEPT ![space] = @ + 1]
  /\ call' = NoCall
  /\ UNCHANGED <<congestionController, now, acks, aborted>>

\* The steady clock advances.
Tick ==
  /\ ~aborted
  /\ now < MaxTicks * TickNanos
  /\ now' = now + TickNanos
  /\ call' = NoCall
  /\ UNCHANGED <<packets, packetEvents, initialPacketsCount, handshakePacketsCount,
                 clonedPacketsCount, lossState, congestionController, nextPacketNum,
                 acks, aborted>>

\* An ack frame for pnSpace arrives and processAckFrame runs to its end.
ProcessAckFrame(pnSpace, frame, ackReceiveTime, loss) ==
  /\ ~aborted
  /\ \E r \in {processAckFrame(Conn, pnSpace, frame, ackReceiveTime, now,
                                 loss, loss.persistentCongestion)} :
        /\ packets' = r.packets
        /\ packetEvents' = r.packetEvents
        /\ initialPacketsCount' = r.initialPacketsCount
        /\ handshakePacketsCount' = r.handshakePacketsCount
        /\ clonedPacketsCount' = r.clonedPacketsCount
        /\ lossState' = r.lossState
        /\ aborted' = r.aborted
        /\ call' = [op |-> "processAckFrame",
                    pnSpace |-> pnSpace,
                    frame |-> frame,
                    ackReceiveTime |-> ackReceiveTime,
                    clockNow |-> now,
                    loss |-> loss,
                    pre |-> Conn,
                    ack |-> r.ack,
                    trace |-> r.trace]
  /\ UNCHANGED <<congestionController, nextPacketNum, now, acks>>

\* A packet numbered pn is received from the peer: AckState tracks it.
ReceivePacket(pn) ==
  /\ ~aborted
  /\ acks' = acks \cup {pn}
  /\ call' = NoCall
  /\ UNCHANGED <<packets, packetEvents, initialPacketsCount, handshakePacketsCount,
                 clonedPacketsCount, lossState, congestionController, nextPacketNum,
                 now, aborted>>

\* A packet that carried the ack frame this endpoint wrote is acked.
CommonAckVisitorForAckFrame(frame) ==
  /\ ~aborted
  /\ acks' = commonAckVisitorForAckFrame(acks, frame)
  /\ call' = [op |-> "commonAckVisitorForAckFrame", frame |-> frame, pre |-> Conn]
  /\ UNCHANGED <<packets, packetEvents, initialPacketsCount, handshakePacketsCount,
                 clonedPacketsCount, lossState, congestionController, nextPacketNum,
                 now, aborted>>

\* ----------------------------------------------------------- specifications
NoLoss == {l \in LossOutcomes : ~l.present}

\* SpecOrder: packets of all three spaces interleaved, told apart by space
\* and number; no congestion controller attached.
InitOrder == Init /\ congestionController = FALSE

OrderFrames == ReadAckFrames({0})

SendInSpaces ==
  \E space \in PacketNumberSpace :
    /\ SentSoFar < MaxSent
    /\ SendPacket(space, 1, FALSE, FALSE, None, 1)

AckInSpaces ==
  \E pnSpace \in PacketNumberSpace, frame \in OrderFrames, loss \in NoLoss :
    ProcessAckFrame(pnSpace, frame, now, loss)

NextOrder == SendInSpaces \/ AckInSpaces

SpecOrder == InitOrder /\ [][NextOrder]_vars

\* SpecClone: handshake packets and clones that share an associated event.
\* Packets of the Initial and Handshake spaces carry crypto data here.
SendClone ==
  \E space \in PacketNumberSpace, event \in {None} \cup Events, nframes \in 1..MaxFrames :
    /\ SentSoFar < MaxCloneSent
    /\ SendPacket(space, 1, space \in {"Initial", "Handshake"}, FALSE, event, nframes)

NextClone == SendClone \/ AckInSpaces

SpecClone == InitOrder /\ [][NextClone]_vars

\* SpecMixed: clones in the AppData space between packets of the Handshake
\* space.
SendMixed ==
  \E space \in {"Handshake", "AppData"} :
    /\ SentSoFar < MaxMixedSent
    /\ SendPacket(space, 1, space = "Handshake", FALSE,
                  IF space = "AppData" THEN 1 ELSE None, 1)

NextMixed == SendMixed \/ AckInSpaces

SpecMixed == InitOrder /\ [][NextMixed]_vars

\* SpecNotify: packets of one space, with and without a congestion
\* controller, and every answer of the loss detector.
SendAppData ==
  /\ SentSoFar < MaxSingleSent
  /\ SendPacket("AppData", 1, FALSE, FALSE, None, 1)

AckWithLoss ==
  \E pnSpace \in PacketNumberSpace, frame \in OrderFrames, loss \in LossOutcomes :
    ProcessAckFrame(pnSpace, frame, now, loss)

NextNotify == SendAppData \/ AckWithLoss

SpecNotify == Init /\ [][NextNotify]_vars

\* SpecRtt: packets of one space sent at different times, acks received at
\* any time up to now.
AckDelays == {25}

RttFrames == ReadAckFrames(AckDelays)

SendTimed ==
  /\ SentSoFar < MaxTimedSent
  /\ SendPacket("AppData", 1, FALSE, FALSE, None, 1)

AckTimed ==
  \E frame \in RttFrames, ackReceiveTime \in {t \in TimePoints : t <= now}, loss \in NoLoss :
    ProcessAckFrame("AppData", frame, ackReceiveTime, loss)

NextRtt == SendTimed \/ Tick \/ AckTimed

SpecRtt == InitOrder /\ [][NextRtt]_vars

\* SpecClock: as SpecRtt, with frames of one block and ack receive times that
\* need not come from the steady clock: before the packet was sent, between
\* sending and processing, or ahead of the clock.
OneBlockFrames == {f \in RttFrames : Len(f.ackBlocks) = 1}

AckAnyTime ==
  \E frame \in OneBlockFrames, ackReceiveTime \in TimePoints, loss \in NoLoss :
    ProcessAckFrame("AppData", frame, ackReceiveTime, loss)

NextClock == SendTimed \/ Tick \/ AckAnyTime

SpecClock == InitOrder /\ [][NextClock]_vars

\* SpecSkip: packets of the AppData space with packets of the Handshake space
\* between them; the acks are for the AppData space.
SendTwoSpaces ==
  \E space \in {"Handshake", "AppData"} :
    /\ SentSoFar < MaxSkipSent
    /\ SendPacket(space, 1, FALSE, FALSE, None, 1)

AckAppData ==
  \E frame \in OrderFrames, loss \in NoLoss :
    ProcessAckFrame("AppData", frame, now, loss)

NextSkip == SendTwoSpaces \/ AckAppData

SpecSkip == InitOrder /\ [][NextSkip]_vars

\* SpecBytes: AppData packets of different encoded sizes, with or without an
\* associated event.
EncodedSizes == 1..MaxEncodedSize

SendSized ==
  \E size \in EncodedSizes, event \in {None} \cup Events :
    /\ SentSoFar < MaxSizedSent
    /\ SendPacket("AppData", size, FALSE, FALSE, event, 1)

NextBytes == SendSized \/ AckAppData

SpecBytes == InitOrder /\ [][NextBytes]_vars

\* SpecLimited: AppData packets sent at different times, app-limited or not.
SendLimited ==
  \E appLimited \in BOOLEAN :
    /\ SentSoFar < MaxTimedSent
    /\ SendPacket("AppData", 1, FALSE, appLimited, None, 1)

NextLimited == SendLimited \/ Tick \/ AckAppData

SpecLimited == InitOrder /\ [][NextLimited]_vars

\* SpecLate: handshake packets of the Initial space, with or without an
\* associated event, among plain AppData packets; the acks are for the
\* Initial space.
SendInitialOrData ==
  \/ \E event \in {None} \cup Events :
       /\ SentSoFar < MaxCloneSent
       /\ SendPacket("Initial", 1, TRUE, FALSE, event, 1)
  \/ /\ SentSoFar < MaxCloneSent
     /\ SendPacket("AppData", 1, FALSE, FALSE, None, 1)

AckInitial ==
  \E frame \in OrderFrames, loss \in NoLoss :
    ProcessAckFrame("Initial", frame, now, loss)

NextLate == SendInitialOrData \/ AckInitial

SpecLate == InitOrder /\ [][NextLate]_vars

\* SpecAckState: packets received from the peer and written ack frames
\* confirmed.  A written frame lists the intervals of AckState at the time it
\* was written, largest first.
ReceivedNums == 0..MaxReceivedNum

Intervals == {b \in [start : ReceivedNums, end : ReceivedNums] : b.start <= b.end}

RECURSIVE IntervalLists(_)
IntervalLists(n) ==
  IF n = 0 THEN {<<>>}
  ELSE {Append(x[1], x[2]) :
          x \in {y \in IntervalLists(n - 1) \X Intervals :
                   \/ y[1] = <<>>
                   \/ y[2].end + 1 < y[1][Len(y[1])].start}}

WriteAckFrames ==
  {[ackBlocks |-> l] : l \in UNION {IntervalLists(n) : n \in 0..MaxWriteBlocks}}

Receive == \E pn \in ReceivedNums : ReceivePacket(pn)

AckOfAckFrame == \E frame \in WriteAckFrames : CommonAckVisitorForAckFrame(frame)

NextAckState == Receive \/ AckOfAckFrame

SpecAckState == InitOrder /\ [][NextAckState]_vars

\* ------------------------------------------------------------------- claims
\* The last operation was a processAckFrame call that returned.
Returned == call.op = "processAckFrame" /\ ~aborted

InBlocks(pn, frame) ==
  \E i \in 1..Len(frame.ackBlocks) :
    frame.ackBlocks[i].startPacket <= pn /\ pn <= frame.ackBlocks[i].endPacket

\* The packet is of the space the frame is for and its number is in a block.
Acknowledged(p, pnSpace, frame) == p.space = pnSpace /\ InBlocks(p.pn, frame)

\* The packets of pkts the frame does not acknowledge, in their order.
NotAcknowledged(pkts, pnSpace, frame) ==
  SelectSeq(pkts, LAMBDA p : ~Acknowledged(p, pnSpace, frame))

AllInSpace(pkts, pnSpace) == \A i \in 1..Len(pkts) : pkts[i].space = pnSpace

\* C1: when every outstanding packet is in the target space, processAckFrame
\* removes exactly the packets whose number lies in some ack block of the
\* frame, and leaves every other packet outstanding, in order.
C1_ExactRemovalSingleSpace ==
  (Returned /\ AllInSpace(call.pre.packets, call.pnSpace))
    => packets = NotAcknowledged(call.pre.packets, call.pnSpace, call.frame)

\* C1 witness: three packets of one space, a frame of two blocks, two packets
\* removed and one left outstanding.
C1_Witness ==
  /\ Returned
  /\ AllInSpace(call.pre.packets, call.pnSpace)
  /\ Len(call.pre.packets) = 3
  /\ Len(call.frame.ackBlocks) = 2
  /\ \A i \in 1..2 : \E j \in 1..3 :
       /\ call.frame.ackBlocks[i].startPacket <= call.pre.packets[j].pn
       /\ call.pre.packets[j].pn <= call.frame.ackBlocks[i].endPacket
  /\ Len(packets) = 1

\* C2: with packets of several spaces interleaved, after processAckFrame
\* returns no packet of the target space whose number lies in an ack block of
\* the frame is still outstanding.
C2_NoAcknowledgedPacketLeft ==
  Returned =>
    \A i \in 1..Len(packets) : ~Acknowledged(packets[i], call.pnSpace, call.frame)

\* C3: processAckFrame never removes a packet of another space, nor a packet
\* of the target space whose number is outside every ack block; those packets
\* stay outstanding in their original order.
C3_OnlyAcknowledgedRemoved ==
  Returned =>
    NotAcknowledged(packets, call.pnSpace, call.frame)
      = NotAcknowledged(call.pre.packets, call.pnSpace, call.frame)

\* C4: over all sequences of packet sends and processAckFrame calls, the
\* counter checks of processAckFrame never abort, and after every call the
\* outstanding packets are at least as many as the Initial plus Handshake
\* count and as the cloned count.
C4_CountersNeverAbort ==
  /\ ~aborted
  /\ call.op = "processAckFrame" =>
       /\ Len(packets) >= initialPacketsCount + handshakePacketsCount
       /\ Len(packets) >= clonedPacketsCount

\* How often the call made the call, or took the step, named ev.
CountEvents(ev) ==
  Cardinality({i \in 1..Len(call.trace) : call.trace[i].ev = ev})

\* The outstanding packets the call acked: those the inner loop processed.
Matched ==
  {p \in Range(call.pre.packets) :
     /\ p.space = call.pnSpace
     /\ \E i \in 1..Len(call.trace) :
          call.trace[i].ev = "ackedPacket" /\ call.trace[i].pn = p.pn}

\* Whether block i of the frame matched a packet.
BlockMatched(i) ==
  \E p \in Matched :
    /\ call.frame.ackBlocks[i].startPacket <= p.pn
    /\ p.pn <= call.frame.ackBlocks[i].endPacket

\* C5: a call that returns invokes onPacketAckOrLoss at most once, and
\* exactly once if and only if a congestion controller is attached and a
\* packet was matched or the loss detector returned a loss event.
C5_SingleNotification ==
  Returned =>
    /\ CountEvents("onPacketAckOrLoss") <= 1
    /\ CountEvents("onPacketAckOrLoss") = 1
         <=> (call.pre.congestionController /\ (Matched # {} \/ call.loss.present))

\* C5 witness: two ack blocks each match a packet and the congestion
\* controller is invoked once.
C5_Witness ==
  /\ Returned
  /\ call.pre.congestionController
  /\ Len(call.frame.ackBlocks) = 2
  /\ BlockMatched(1) /\ BlockMatched(2)
  /\ CountEvents("onPacketAckOrLoss") = 1

\* C6: every call that returns invokes the loss detector exactly once.
C6_LossDetectorOnce == Returned => CountEvents("handleAckForLoss") = 1

\* C6 witness: the block loop stops early, at its first block, with every
\* outstanding packet above it; nothing matched, the loss detector ran.
C6_Witness ==
  /\ Returned
  /\ call.pre.packets # <<>>
  /\ Len(call.frame.ackBlocks) >= 1
  /\ \A i \in 1..Len(call.pre.packets) :
       call.pre.packets[i].pn > call.frame.ackBlocks[1].endPacket
  /\ Matched = {}
  /\ CountEvents("handleAckForLoss") = 1

\* C7: an ack frame none of whose blocks contains the number of an
\* outstanding packet of the target space leaves the outstanding packets, the
\* counters, the pending events, the loss state and AckState unchanged,
\* invokes neither the ack visitor nor the RTT estimator, and its ack event
\* has no largest acked packet and no acked bytes.
C7_NoOpAckChangesNothing ==
  (/\ Returned
   /\ \A i \in 1..Len(call.pre.packets) :
        ~Acknowledged(call.pre.packets[i], call.pnSpace, call.frame))
    => /\ packets = call.pre.packets
       /\ initialPacketsCount = call.pre.initialPacketsCount
       /\ handshakePacketsCount = call.pre.handshakePacketsCount
       /\ clonedPacketsCount = call.pre.clonedPacketsCount
       /\ packetEvents = call.pre.packetEvents
       /\ lossState = call.pre.lossState
       /\ acks = call.pre.acks
       /\ CountEvents("ackVisitor") = 0
       /\ CountEvents("updateRtt") = 0
       /\ call.ack.largestAckedPacket = None
       /\ call.ack.ackedBytes = 0

\* The ack visitor ran for a frame of the packet numbered pn.
Visited(pn) ==
  \E i \in 1..Len(call.trace) :
    call.trace[i].ev = "ackVisitor" /\ call.trace[i].pn = pn

StillOutstanding(p) == \E i \in 1..Len(packets) : packets[i] = p

\* C8: of two outstanding packets of the target space that share a pending
\* associated event and are both covered by the ack frame, the ack visitor
\* runs for the one with the higher packet number and not for the other, and
\* both are removed.
C8_CloneVisitedOnce ==
  Returned =>
    \A i, j \in 1..Len(call.pre.packets) :
      LET lo == call.pre.packets[i]
          hi == call.pre.packets[j]
      IN (/\ i < j
          /\ \A k \in 1..Len(call.pre.packets) :
               call.pre.packets[k].associatedEvent = lo.associatedEvent => k \in {i, j}
          /\ lo.space = call.pnSpace /\ hi.space = call.pnSpace
          /\ lo.associatedEvent # None
          /\ lo.associatedEvent = hi.associatedEvent
          /\ lo.associatedEvent \in call.pre.packetEvents
          /\ InBlocks(lo.pn, call.frame) /\ InBlocks(hi.pn, call.frame))
         => /\ Visited(hi.pn)
            /\ ~Visited(lo.pn)
            /\ ~StillOutstanding(lo)
            /\ ~StillOutstanding(hi)

\* C9: the RTT estimator is invoked at most once per call, only for a
\* matched packet whose number is frame.largestAcked, with that packet's
\* sample and frame.ackDelay, and not at all when no matched packet has that
\* number.
C9_RttFromLargestAcked ==
  Returned =>
    LET rtts == {i \in 1..Len(call.trace) : call.trace[i].ev = "updateRtt"}
    IN /\ Cardinality(rtts) <= 1
       /\ \A i \in rtts :
            /\ call.trace[i].pn = call.frame.largestAcked
            /\ call.trace[i].aux = call.frame.ackDelay
            /\ \E p \in Matched :
                 /\ p.pn = call.trace[i].pn
                 /\ call.trace[i].val = RttSample(p, call.ackReceiveTime, call.clockNow)
       /\ (rtts # {}) <=> (\E p \in Matched : p.pn = call.frame.largestAcked)

\* C9 witness: two packets matched, one of them the largest acked, the
\* estimator invoked once with a non-zero ack delay.
C9_Witness ==
  /\ Returned
  /\ Cardinality(Matched) >= 2
  /\ CountEvents("updateRtt") = 1
  /\ call.frame.ackDelay # 0

\* The matched packets sent before the ack was received.
MatchedBeforeAck == {p \in Matched : call.ackReceiveTime > p.time}

\* C10: the ack event's minimum-RTT sample is the minimum, in microseconds,
\* of ackReceiveTime - sendTime over the matched packets with ackReceiveTime >
\* sendTime, and is absent when there is no such packet.
C10_MinRttSample ==
  Returned =>
    IF MatchedBeforeAck = {} THEN call.ack.mrttSample = None
    ELSE /\ \E p \in MatchedBeforeAck :
              call.ack.mrttSample = ToMicros(call.ackReceiveTime - p.time)
         /\ \A p \in MatchedBeforeAck :
              call.ack.mrttSample <= ToMicros(call.ackReceiveTime - p.time)

\* C10 witness: two matched packets sent before the ack was received, with
\* different samples; the smaller one is the frame's minimum.
C10_Witness ==
  /\ Returned
  /\ \E p, q \in MatchedBeforeAck :
       /\ ToMicros(call.ackReceiveTime - p.time) < ToMicros(call.ackReceiveTime - q.time)
       /\ call.ack.mrttSample = ToMicros(call.ackReceiveTime - p.time)

\* The last operation was a commonAckVisitorForAckFrame call.
VisitorDone == call.op = "commonAckVisitorForAckFrame"

\* Some block of the written ack frame covers pn.
Covered(pn, frame) ==
  \E i \in 1..Len(frame.ackBlocks) :
    frame.ackBlocks[i].start <= pn /\ pn <= frame.ackBlocks[i].end

\* The blocks are in descending order and do not overlap.
SortedDescending(ackBlocks) ==
  \A i, j \in 1..Len(ackBlocks) : i < j => ackBlocks[j].end < ackBlocks[i].start

\* The intervals an interval set holding the numbers of ackSet is made of.
TrackedIntervals(ackSet) ==
  {b \in Intervals :
     /\ (b.start .. b.end) \subseteq ackSet
     /\ (b.start - 1) \notin ackSet
     /\ (b.end + 1) \notin ackSet}

\* C11: after commonAckVisitorForAckFrame with a non-empty frame whose blocks
\* are sorted descending, no tracked interval lies entirely below
\* largestAcked - purgeThreshold, and no packet number covered by a block of
\* the frame is tracked.
C11_PurgedAndWithdrawn ==
  (VisitorDone /\ call.frame.ackBlocks # <<>> /\ SortedDescending(call.frame.ackBlocks))
    => /\ \A b \in TrackedIntervals(acks) :
            ~(b.end < call.frame.ackBlocks[1].end - kAckPurgingThresh)
       /\ \A pn \in acks : ~Covered(pn, call.frame)

\* C11 witness: a frame of two sorted blocks whose largest acked exceeds the
\* threshold; an interval no block covers lay entirely below the purge bound
\* before the call, and a number above the bound is still tracked.
C11_Witness ==
  /\ VisitorDone
  /\ Len(call.frame.ackBlocks) = 2
  /\ SortedDescending(call.frame.ackBlocks)
  /\ \E b \in TrackedIntervals(call.pre.acks) :
       /\ b.end < call.frame.ackBlocks[1].end - kAckPurgingThresh
       /\ \A pn \in b.start .. b.end : ~Covered(pn, call.frame)
  /\ \E pn \in acks : pn > call.frame.ackBlocks[1].end - kAckPurgingThresh
  /\ \A b \in TrackedIntervals(acks) :
       ~(b.end < call.frame.ackBlocks[1].end - kAckPurgingThresh)

\* C18: commonAckVisitorForAckFrame removes from AckState only numbers a
\* block of the frame covers or, when largestAcked > purgeThreshold, numbers
\* of [0, largestAcked - purgeThreshold]; every other tracked number stays
\* tracked, nothing is purged when largestAcked <= purgeThreshold, and a
\* frame without blocks leaves AckState unchanged.
C18_OnlyCoveredOrPurgedRemoved ==
  VisitorDone =>
    LET blocks == call.frame.ackBlocks
        purged(pn) == /\ blocks # <<>>
                      /\ blocks[1].end > kAckPurgingThresh
                      /\ pn <= blocks[1].end - kAckPurgingThresh
    IN /\ acks \subseteq call.pre.acks
       /\ \A pn \in call.pre.acks :
            pn \notin acks => (Covered(pn, call.frame) \/ purged(pn))
       /\ (blocks # <<>> /\ blocks[1].end <= kAckPurgingThresh)
            => \A pn \in call.pre.acks : pn \notin acks => Covered(pn, call.frame)
       /\ blocks = <<>> => acks = call.pre.acks

\* C18 witness: the largest acked equals the threshold; a covered number is
\* removed and number 0, which no block covers, stays tracked.
C18_Witness ==
  /\ VisitorDone
  /\ call.frame.ackBlocks # <<>>
  /\ call.frame.ackBlocks[1].end = kAckPurgingThresh
  /\ 0 \in acks
  /\ ~Covered(0, call.frame)
  /\ acks # call.pre.acks

\* The packet an ack record was made from: the bytes sent up to a packet
\* tell it from every other outstanding packet.
PacketOfRecord(rec) ==
  CHOOSE p \in Range(call.pre.packets) : p.totalBytesSent = rec.totalBytesSentThen

\* The packet numbers of the records of ack.ackedPackets, in list order.
AckedNums ==
  [i \in 1..Len(call.ack.ackedPackets) |-> PacketOfRecord(call.ack.ackedPackets[i]).pn]

\* The positions in the trace of the ack-visitor invocations, in order.
VisitorEvents == SelectSeq(call.trace, LAMBDA e : e.ev = "ackVisitor")

\* The block of the frame that holds pn, 0 when none does.
BlockOf(pn, frame) ==
  IF InBlocks(pn, frame)
    THEN CHOOSE i \in 1..Len(frame.ackBlocks) :
           frame.ackBlocks[i].startPacket <= pn /\ pn <= frame.ackBlocks[i].endPacket
    ELSE 0

\* C12: within one call the ack-visitor invocations and the records of
\* ack.ackedPackets are in strictly decreasing packet number (the visitor
\* invocations for the frames of one packet adjacent), and a packet of an
\* earlier block comes before a packet of a later block, packets of other
\* spaces skipped or not.
C12_DescendingVisitOrder ==
  Returned =>
    /\ \A i, j \in 1..Len(AckedNums) : i < j => AckedNums[i] > AckedNums[j]
    /\ \A i, j \in 1..Len(VisitorEvents) :
         i < j => \/ VisitorEvents[i].pn > VisitorEvents[j].pn
                  \/ /\ VisitorEvents[i].pn = VisitorEvents[j].pn
                     /\ VisitorEvents[i].val < VisitorEvents[j].val
    /\ \A i, j \in 1..Len(AckedNums) :
         (/\ i < j
          /\ InBlocks(AckedNums[i], call.frame)
          /\ InBlocks(AckedNums[j], call.frame))
           => BlockOf(AckedNums[i], call.frame) <= BlockOf(AckedNums[j], call.frame)

\* C12 witness: a frame of two blocks, a packet of each block acked with a
\* packet of another space between them in the ledger, the record of the
\* first block's packet first.
C12_Witness ==
  /\ Returned
  /\ Len(call.frame.ackBlocks) = 2
  /\ Len(AckedNums) = 2
  /\ BlockOf(AckedNums[1], call.frame) = 1
  /\ BlockOf(AckedNums[2], call.frame) = 2
  /\ Len(VisitorEvents) = 2
  /\ \E i, j, k \in 1..Len(call.pre.packets) :
       /\ i < j /\ j < k
       /\ call.pre.packets[i].space = call.pnSpace
       /\ call.pre.packets[i].pn = AckedNums[2]
       /\ call.pre.packets[j].space # call.pnSpace
       /\ call.pre.packets[k].space = call.pnSpace
       /\ call.pre.packets[k].pn = AckedNums[1]

Max(a, b) == IF a > b THEN a ELSE b

\* The entries of the trace that record an acked packet or a call of the RTT
\* estimator; both carry the packet's RTT sample.
SampleEvents ==
  {i \in 1..Len(call.trace) : call.trace[i].ev \in {"ackedPacket", "updateRtt"}}

\* The sample carried by trace entry i.
SampleOf(i) ==
  IF call.trace[i].ev = "updateRtt" THEN call.trace[i].val ELSE call.trace[i].aux

\* The matched packet trace entry i is about.
PacketOfEvent(i) == CHOOSE p \in Matched : p.pn = call.trace[i].pn

\* C13 as stated: the RTT sample of every matched packet, and the value
\* handed to the RTT estimator, is max(ackReceiveTime, nowClock) - sendTime.
C13_SampleFromLaterOfAckAndClock ==
  Returned =>
    \A i \in SampleEvents :
      SampleOf(i) = ToMicros(Max(call.ackReceiveTime, call.clockNow) - PacketOfEvent(i).time)

\* C13 amended: the RTT sample of every matched packet, and the value handed
\* to the RTT estimator for the largest acked, is ackReceiveTime - sendTime
\* when ackReceiveTime > sendTime and nowClock - sendTime otherwise, in whole
\* microseconds.
C13_SampleFromAckTimeOrClock ==
  Returned =>
    \A i \in SampleEvents :
      SampleOf(i) =
        IF call.ackReceiveTime > PacketOfEvent(i).time
          THEN ToMicros(call.ackReceiveTime - PacketOfEvent(i).time)
          ELSE ToMicros(call.clockNow - PacketOfEvent(i).time)

\* C13 witness: the ack was received after the largest acked packet was sent
\* and is processed later still; the estimator gets the time to receipt, which
\* differs from the time to processing.
C13_Witness ==
  /\ Returned
  /\ \E i \in SampleEvents :
       /\ call.trace[i].ev = "updateRtt"
       /\ PacketOfEvent(i).time < call.ackReceiveTime
       /\ call.ackReceiveTime < call.clockNow
       /\ SampleOf(i) = ToMicros(call.ackReceiveTime - PacketOfEvent(i).time)
       /\ SampleOf(i) # ToMicros(call.clockNow - PacketOfEvent(i).time)

\* The packets the call removed from the ledger, in ledger order.
Removed == SelectSeq(call.pre.packets, LAMBDA p : ~StillOutstanding(p))

\* The encoded sizes of the packets of pkts, in order.
SizesOf(pkts) == [i \in 1..Len(pkts) |-> pkts[i].encodedSize]

\* C14: after a call the ack event holds exactly one record per removed
\* packet, clones of a processed event included, each with that packet's
\* send time, size and flags; ackedBytes is the sum of the removed packets'
\* encoded sizes, totalBytesAcked has grown by that sum, and
\* totalBytesAckedAtLastAck equals the new totalBytesAcked when a packet was
\* removed.
C14_RecordsAndBytesOfRemoved ==
  Returned =>
    /\ Len(call.ack.ackedPackets) = Len(Removed)
    /\ \A i \in 1..Len(Removed) :
         Cardinality({j \in 1..Len(call.ack.ackedPackets) :
                        call.ack.ackedPackets[j] = AckPacketRecord(Removed[i])}) = 1
    /\ call.ack.ackedBytes = SumSeq(SizesOf(Removed))
    /\ lossState.totalBytesAcked
         = call.pre.lossState.totalBytesAcked + SumSeq(SizesOf(Removed))
    /\ Removed # <<>> => lossState.totalBytesAckedAtLastAck = lossState.totalBytesAcked

\* C14 witness: two clones of one event, of different sizes, are removed by
\* one call that ran the ack visitor for one of them only.
C14_Witness ==
  /\ Returned
  /\ Len(Removed) = 2
  /\ Removed[1].associatedEvent # None
  /\ Removed[1].associatedEvent = Removed[2].associatedEvent
  /\ Removed[1].encodedSize # Removed[2].encodedSize
  /\ CountEvents("ackVisitor") = 1
  /\ call.ack.ackedBytes = Removed[1].encodedSize + Removed[2].encodedSize
  /\ Len(call.ack.ackedPackets) = 2

\* The matched packet the call came to first.
FirstMatched ==
  LET first == CHOOSE i \in 1..Len(call.trace) :
                 /\ call.trace[i].ev = "ackedPacket"
                 /\ \A j \in 1..(i - 1) : call.trace[j].ev # "ackedPacket"
  IN PacketOfEvent(first)

\* The matched packet of the highest number.
TopMatched == CHOOSE p \in Matched : \A q \in Matched : q.pn <= p.pn

\* C15: when a packet was matched, the ack event's largestAckedPacket is the
\* highest matched packet number, its sent time and app-limited flag are that
\* packet's, and lossState.lastAckedPacketSentTime is the send time of the
\* first matched packet met; when none was matched largestAckedPacket is
\* absent and lastAckedPacketSentTime is as before.
C15_LargestAckedOfFrame ==
  Returned =>
    IF Matched # {}
      THEN /\ call.ack.largestAckedPacket = TopMatched.pn
           /\ call.ack.largestAckedPacketSentTime = TopMatched.time
           /\ call.ack.largestAckedPacketAppLimited = TopMatched.isAppLimited
           /\ lossState.lastAckedPacketSentTime = FirstMatched.time
      ELSE /\ call.ack.largestAckedPacket = None
           /\ lossState.lastAckedPacketSentTime = call.pre.lossState.lastAckedPacketSentTime

\* C15 witness: two packets matched that differ in send time and app-limited
\* flag; the ack event and lastAckedPacketSentTime hold those of the higher.
C15_Witness ==
  /\ Returned
  /\ \E p, q \in Matched :
       /\ p.pn < q.pn
       /\ p.time # q.time
       /\ p.isAppLimited # q.isAppLimited
       /\ call.ack.largestAckedPacket = q.pn
       /\ call.ack.largestAckedPacketAppLimited = q.isAppLimited
       /\ lossState.lastAckedPacketSentTime = q.time

\* The matched packets, in ledger order.
MatchedSeq == SelectSeq(call.pre.packets, LAMBDA p : p \in Matched)

\* The matched packets whose associated event had been processed when the
\* walk came to them: by an earlier call, or by this call at a clone of a
\* higher number.
LateClones ==
  {p \in Matched :
     /\ p.associatedEvent # None
     /\ \/ p.associatedEvent \notin call.pre.packetEvents
        \/ \E q \in Matched : q.pn > p.pn /\ q.associatedEvent = p.associatedEvent}

\* The handshake packets of space among the matched packets that count
\* towards the Initial/Handshake acked counts.
CountedHandshake(space) ==
  {p \in Matched \ LateClones : p.isHandshake /\ p.space = space}

\* C16: a packet whose associated event was processed before the walk acks
\* it, in this call or an earlier one, is removed without an ack-visitor
\* invocation and without counting towards the Initial/Handshake acked
\* counts, while its encoded size is in ackedBytes and it counts towards the
\* decrement of the cloned-packets count.
C16_LateClonesSkipped ==
  Returned =>
    /\ \A p \in LateClones : ~Visited(p.pn) /\ ~StillOutstanding(p)
    /\ \A p \in Matched \ LateClones : Visited(p.pn)
    /\ call.pre.initialPacketsCount - initialPacketsCount
         = Cardinality(CountedHandshake("Initial"))
    /\ call.pre.handshakePacketsCount - handshakePacketsCount
         = Cardinality(CountedHandshake("Handshake"))
    /\ call.ack.ackedBytes = SumSeq(SizesOf(MatchedSeq))
    /\ call.pre.clonedPacketsCount - clonedPacketsCount
         = Cardinality({p \in Matched : p.associatedEvent # None})

\* C16 witness: a handshake packet whose event an earlier call processed is
\* acked: no visitor, the handshake counts unchanged, its size acked, the
\* cloned count one lower.
C16_Witness ==
  /\ Returned
  /\ \E p \in LateClones :
       /\ Matched = {p}
       /\ p.isHandshake
       /\ p.associatedEvent \notin call.pre.packetEvents
  /\ CountEvents("ackVisitor") = 0
  /\ initialPacketsCount = call.pre.initialPacketsCount
  /\ handshakePacketsCount = call.pre.handshakePacketsCount
  /\ call.ack.ackedBytes > 0
  /\ clonedPacketsCount = call.pre.clonedPacketsCount - 1

\* The positions of the trace at which the call did the step named ev.
EventsAt(ev) == {i \in 1..Len(call.trace) : call.trace[i].ev = ev}

\* What the call does to the ledger and the counters while it walks.
LedgerSteps ==
  EventsAt("ackBlock") \cup EventsAt("advance") \cup EventsAt("ackVisitor")
    \cup EventsAt("updateRtt") \cup EventsAt("ackedPacket") \cup EventsAt("erase")
    \cup EventsAt("counters")

\* C17: in one call every ack-visitor invocation, every removal from the
\* ledger and the decrement of the counters come before the loss detector,
\* the loss detector before the congestion controller, and with a loss event
\* the persistent-congestion predicate over [smallestLostSentTime,
\* largestLostSentTime] is asked, and its answer stored, before
\* onPacketAckOrLoss gets the event.
C17_OrderOfHandOff ==
  Returned =>
    /\ Cardinality(EventsAt("counters")) = 1
    /\ Cardinality(EventsAt("handleAckForLoss")) = 1
    /\ \A i \in LedgerSteps, j \in EventsAt("handleAckForLoss") : i < j
    /\ \A i \in EventsAt("handleAckForLoss"),
          j \in EventsAt("isPersistentCongestion") \cup EventsAt("onPacketAckOrLoss") : i < j
    /\ \A j \in EventsAt("onPacketAckOrLoss") :
         IF call.loss.present
           THEN /\ call.trace[j].val = 1
                /\ call.trace[j].aux = (IF call.loss.persistentCongestion THEN 1 ELSE 0)
                /\ \E i \in EventsAt("isPersistentCongestion") :
                     /\ i < j
                     /\ call.trace[i].val = call.loss.smallestLostSentTime
                     /\ call.trace[i].aux = call.loss.largestLostSentTime
           ELSE /\ call.trace[j].val = 0
                /\ EventsAt("isPersistentCongestion") = {}

\* C17 witness: packets are acked and removed, the loss detector returns a
\* loss event the predicate finds persistent, and the congestion controller
\* gets it with the flag set.
C17_Witness ==
  /\ Returned
  /\ call.loss.present /\ call.loss.persistentCongestion
  /\ EventsAt("ackVisitor") # {}
  /\ EventsAt("erase") # {}
  /\ \E i \in EventsAt("isPersistentCongestion"), j \in EventsAt("onPacketAckOrLoss") :
       i < j /\ call.trace[j].aux = 1

\* The last operation was a processAckFrame call, returned or not.
Called == call.op = "processAckFrame"

\* C19: every processAckFrame call terminates and reaches the loss-detector
\* hand-off: the block loop takes each block at most once, in order; every
\* iteration of the inner walk moves the cursor toward the head, also after
\* an erase in front of a packet of another space; the cursor never moves
\* back toward the tail; and handleAckForLoss is invoked.
C19_ReachesHandOff ==
  Called =>
    /\ \A i \in EventsAt("ackBlock") :
         call.trace[i].pn
           = Cardinality({j \in EventsAt("ackBlock") : j <= i})
    /\ Cardinality(EventsAt("ackBlock")) <= Len(call.frame.ackBlocks)
    /\ \A i \in EventsAt("advance") : call.trace[i].aux < call.trace[i].val
    /\ \A i, j \in EventsAt("advance") \cup EventsAt("ackBlock") :
         i < j => call.trace[j].val <= call.trace[i].aux
    /\ Cardinality(EventsAt("handleAckForLoss")) = 1

\* How many packets of pkts satisfy Test.
CountPackets(pkts, Test(_)) == Cardinality({i \in 1..Len(pkts) : Test(pkts[i])})

\* The three counters say what the ledger pkts holds.
CountersExact(pkts, initialCount, handshakeCount, clonedCount) ==
  /\ initialCount = CountPackets(pkts, LAMBDA p : p.isHandshake /\ p.space = "Initial")
  /\ handshakeCount = CountPackets(pkts, LAMBDA p : p.isHandshake /\ p.space = "Handshake")
  /\ clonedCount = CountPackets(pkts, LAMBDA p : p.associatedEvent # None)

\* C20: if the Initial, Handshake and cloned counts are exact before a
\* processAckFrame call, they are exact after it, whatever the frame and the
\* pending-packet-events set.
C20_CountersStayExact ==
  (/\ Returned
   /\ CountersExact(call.pre.packets, call.pre.initialPacketsCount,
                    call.pre.handshakePacketsCount, call.pre.clonedPacketsCount))
    => CountersExact(packets, initialPacketsCount, handshakePacketsCount,
                     clonedPacketsCount)

====
